---- MODULE Spec2Model ----
(***************************************************************************)
(* kek: walk the scan roots, classify every regular file as Docs, Src or   *)
(* Other, aggregate the classified files into buckets and stream the       *)
(* buckets to stdout.                                                      *)
(*                                                                         *)
(* Spec     models file_processor::process_all_categories.                 *)
(* SpecOut  models the tail of main and output::write_output.              *)
(*                                                                         *)
(* Paths are sequences of components, "/" being the root component.        *)
(* File sizes and byte counts are counted in blocks of 2^61 bytes: a u64   *)
(* holds U64Blocks = 8 blocks and a file, whose length the file system     *)
(* keeps in a signed 64-bit st_size, at most MaxFileBlocks = 3 whole       *)
(* blocks.                                                                 *)
(***************************************************************************)
EXTENDS Integers, Sequences, FiniteSets, TLC

VARIABLES
    pc,                     \* position in process_all_categories / main / write_output
    scan,                   \* config.scan: the configured scan roots
    docs,                   \* config.docs: the relative paths the docs matcher matches
    src,                    \* config.src: the relative paths the src matcher matches
    disk,                   \* size of every regular file, as metadata reports it
    canonical_working_dir,  \* working_dir.canonicalize()
    scan_idx,               \* position of the `for scan_dir_config_path` loop
    walk_roots,             \* the roots given to the WalkBuilder, in order
    has_valid_scan_paths,
    work,                   \* directory entries the parallel walker has yet to deliver
    worker_done,            \* walker threads that have returned
    stack,                  \* categorized_results_stack, top first
    pushed,                 \* history: every entry ever pushed, in push order
    drained,                \* history: every entry taken off the stack, in drain order
    faults,                 \* number of environment failures injected so far
    stderr,                 \* the diagnostic channel
    grouped_files,          \* FxHashMap<FileCategoryType, Vec<FileData>>
    processed_abs_paths,    \* FxHashSet<PathBuf>
    result,                 \* the Vec<CategoryData> returned, write_output's categories_data
    ret,                    \* "none", "ok", "err" or "panic"
    caller,                 \* who calls write_output: "main", or "direct" (any other caller)
    cli_args,               \* env::args().skip(1)
    task_args,              \* Option<String>
    ci,                     \* position of `for category_data in categories_data`
    fi,                     \* position of `for file_data in &category_data.files`
    out_buf,                \* buffered_stdout: lines written but not yet at the descriptor
    sink,                   \* what the stdout descriptor has received
    src_fd,                 \* file_to_send_owned_fd: the path it is open on, or NoPath
    open_fds,               \* the source descriptors open, each named by its open's number
    src_content,            \* the bytes of the open file
    sent_total,
    send_log,               \* history: [requested, sent] of every sendfile call on src_fd
    read_log,               \* history: path and contents of every file opened, in order
    exit_code,              \* -1 while the process runs
    resolver_base,          \* create_relative_path's `base`
    resolver_target,        \* create_relative_path's `target_path`
    resolver_result         \* the Result it returned, NoResult before the call

walkVars == <<scan, docs, src, disk, canonical_working_dir, scan_idx, walk_roots,
              has_valid_scan_paths, work, worker_done, stack, pushed, drained,
              grouped_files, processed_abs_paths>>

outVars == <<caller, cli_args, task_args, ci, fi, out_buf, sink, src_fd, open_fds,
             src_content, sent_total, send_log, read_log, exit_code>>

relVars == <<resolver_base, resolver_target, resolver_result>>

vars == <<pc, walkVars, outVars, relVars, faults, stderr, result, ret>>

----------------------------------------------------------------------------
(* Bounds *)

MaxRoots == 3
MaxFaults == 1
NumWorkers == 2
MaxLen == 2
MaxEntries == 2
MaxDepth == 2

(* Integer widths, in blocks of 2^61 bytes *)
U64Blocks == 8
MaxFileBlocks == 3

----------------------------------------------------------------------------
(* The file system the program runs on *)

WorkingDir == <<"/", "w">>
SrcDir == <<"/", "w", "src">>
ReadmeFile == <<"/", "w", "README.md">>
MainFile == <<"/", "w", "src", "main.rs">>
OtherDir == <<"/", "o">>
DataFile == <<"/", "o", "data.bin">>

Dirs == {<<"/">>, WorkingDir, SrcDir, OtherDir}
Files == {ReadmeFile, MainFile, DataFile}

NoPath == <<>>

IsPrefixOf(a, b) == Len(a) <= Len(b) /\ SubSeq(b, 1, Len(a)) = a

RECURSIVE Normalize(_, _)
Normalize(done, rest) ==
    IF rest = <<>> THEN done
    ELSE LET c == Head(rest) IN
         IF c = "." THEN Normalize(done, Tail(rest))
         ELSE IF c = ".."
              THEN Normalize(IF Len(done) > 1 THEN SubSeq(done, 1, Len(done) - 1)
                             ELSE done, Tail(rest))
              ELSE Normalize(Append(done, c), Tail(rest))

IsAbsolute(p) == p # <<>> /\ p[1] = "/"

PathJoin(base, p) == IF IsAbsolute(p) THEN p ELSE base \o p

\* fs::canonicalize: the normalized path when it names something, NoPath on error
Canonicalize(p) ==
    LET n == Normalize(<<>>, p) IN
    IF n \in Dirs \cup Files THEN n ELSE NoPath

RECURSIVE JoinComps(_)
JoinComps(p) ==
    IF p = <<>> THEN ""
    ELSE IF Len(p) = 1 THEN p[1] ELSE p[1] \o "/" \o JoinComps(Tail(p))

\* a path as {:?} prints it
DebugText(p) ==
    "\"" \o (IF IsAbsolute(p) THEN "/" \o JoinComps(Tail(p)) ELSE JoinComps(p)) \o "\""

\* mutant: the is_dir() test of a scan root is left out
IsDirAlways(p) == TRUE

IsDir(p) == p \in Dirs

----------------------------------------------------------------------------
(* Path Resolver *)

\* mutant: the comparison loop stops at once
CommonPrefixLenZero(b, t, n) == n

\* lines 39-45
RECURSIVE CommonPrefixLen(_, _, _)
CommonPrefixLen(b, t, n) ==
    IF n < Len(b) /\ n < Len(t) /\ b[n + 1] = t[n + 1]
    THEN CommonPrefixLen(b, t, n + 1)
    ELSE n

RECURSIVE ParentDirs(_)
ParentDirs(n) == IF n = 0 THEN <<>> ELSE <<"..">> \o ParentDirs(n - 1)

\* the Component::Prefix values of a platform with several roots
Prefixes == {"C:", "D:"}

\* Component::RootDir | Component::Prefix(_)
IsRootOrPrefix(c) == c = "/" \/ c \in Prefixes

\* the second loop of create_relative_path: a record [done, path]
RECURSIVE PushTargetComps(_, _, _)
PushTargetComps(rel, t, idx) ==
    IF idx > Len(t) THEN [done |-> FALSE, path |-> rel]
    ELSE IF IsRootOrPrefix(t[idx])
         THEN IF rel = <<>> /\ idx = Len(t)
              THEN [done |-> TRUE, path |-> <<".">>]
              ELSE PushTargetComps(rel, t, idx + 1)
         ELSE PushTargetComps(Append(rel, t[idx]), t, idx + 1)

create_relative_path(base, target_path) ==
    IF IsPrefixOf(base, target_path)
    THEN LET stripped == SubSeq(target_path, Len(base) + 1, Len(target_path)) IN
         [ok |-> TRUE, path |-> IF stripped = <<>> THEN <<".">> ELSE stripped]
    ELSE LET common_prefix_len == CommonPrefixLen(base, target_path, 0)
             tail == SubSeq(base, common_prefix_len + 1, Len(base))
             ups == IF \A i \in 1..Len(tail) : tail[i] = "."
                    THEN <<>> ELSE ParentDirs(Len(tail))
             r == PushTargetComps(ups, target_path, common_prefix_len + 1)
         IN  [ok |-> TRUE,
              path |-> IF r.done THEN r.path
                       ELSE IF r.path = <<>> THEN <<".">> ELSE r.path]

----------------------------------------------------------------------------
(* Classifier *)

FileCategoryType == {"Docs", "Src", "Other"}

DOCS_DESCRIPTION == "Immutable documentation. Provided FOR REFERENCE ONLY."
SRC_DESCRIPTION == "Source code files."
OTHER_DESCRIPTION == "Other files."

get_description(cat) ==
    CASE cat = "Docs" -> DOCS_DESCRIPTION
      [] cat = "Src" -> SRC_DESCRIPTION
      [] cat = "Other" -> OTHER_DESCRIPTION

\* GlobSet::is_match, the matcher given by the set of paths it matches
is_match(matcher, relative_path) == relative_path \in matcher

\* mutant: the src matcher is tested before the docs matcher
categorize_file_src_first(relative_path, cdocs, csrc) ==
    IF is_match(csrc, relative_path) THEN "Src"
    ELSE IF is_match(cdocs, relative_path) THEN "Docs"
    ELSE "Other"

categorize_file(relative_path, cdocs, csrc) ==
    IF is_match(cdocs, relative_path) THEN "Docs"
    ELSE IF is_match(csrc, relative_path) THEN "Src"
    ELSE "Other"

----------------------------------------------------------------------------
(* Inputs of one run *)

RelReadme == <<"README.md">>
RelMain == <<"src", "main.rs">>
RelData == <<"..", "o", "data.bin">>

ConfigChoices ==
    { [docs |-> {RelReadme}, src |-> {RelMain}],
      [docs |-> {RelReadme, RelMain}, src |-> {RelReadme, RelMain, RelData}],
      [docs |-> {}, src |-> {}] }

\* the scan-root lists a run is configured with: "." and ../o are directories,
\* SrcDir is given as an absolute path and lies under ".", "missing" does not
\* exist and README.md is a regular file
ScanLists ==
    { <<>>,
      << <<".">> >>, << <<"missing">> >>, << <<"README.md">> >>,
      << <<".">>, <<".">> >>, << SrcDir, <<".">> >>, << <<".">>, <<"..", "o">> >>,
      << <<"missing">>, <<"README.md">> >>, << <<"missing">>, <<".">> >>,
      << <<".">>, <<"README.md">> >>,
      << <<".">>, <<"missing">>, <<"..", "o">> >>,
      << <<"README.md">>, SrcDir, <<"missing">> >>,
      << <<"missing">>, <<".">>, <<"README.md">>, <<"..", "o">> >>,
      << SrcDir, <<"..", "o">>, <<"missing">>, SrcDir >> }

ScanListChoices == { s \in ScanLists : Len(s) <= MaxRoots }

SeqsUpTo(S, n) == UNION { [1..k -> S] : k \in 0..n }

DiskOf(a, b, c) == (ReadmeFile :> a) @@ (MainFile :> b) @@ (DataFile :> c)

DiskChoices ==
    { DiskOf(2, 3, 1), DiskOf(2, 2, 2), DiskOf(1, 0, 1),
      DiskOf(MaxFileBlocks, MaxFileBlocks, MaxFileBlocks) }

Workers == 1..NumWorkers

None == [some |-> FALSE, val |-> ""]
Some(v) == [some |-> TRUE, val |-> v]

WalkIdle ==
    /\ canonical_working_dir = NoPath
    /\ scan_idx = 1
    /\ walk_roots = <<>>
    /\ has_valid_scan_paths = FALSE
    /\ work = {}
    /\ worker_done = {}
    /\ stack = <<>>
    /\ pushed = <<>>
    /\ drained = <<>>
    /\ grouped_files = [c \in {} |-> <<>>]
    /\ processed_abs_paths = {}

OutIdle ==
    /\ ci = 1
    /\ fi = 1
    /\ out_buf = <<>>
    /\ sink = <<>>
    /\ src_fd = NoPath
    /\ open_fds = {}
    /\ src_content = <<>>
    /\ sent_total = 0
    /\ send_log = <<>>
    /\ read_log = <<>>
    /\ exit_code = -1

NoResult == [ok |-> FALSE, path |-> <<>>]

RelIdle ==
    /\ resolver_base = NoPath
    /\ resolver_target = NoPath
    /\ resolver_result = NoResult

Init ==
    /\ pc = "start"
    /\ scan \in ScanListChoices
    /\ \E c \in ConfigChoices : docs = c.docs /\ src = c.src
    /\ disk \in DiskChoices
    /\ WalkIdle
    /\ faults = 0
    /\ stderr = <<>>
    /\ result = <<>>
    /\ ret = "none"
    /\ caller = "main"
    /\ cli_args = <<>>
    /\ task_args = None
    /\ OutIdle
    /\ RelIdle

----------------------------------------------------------------------------
(* process_all_categories: validation of the scan roots *)

Warn(msg) == stderr' = Append(stderr, msg)

\* working_dir.canonicalize(): succeeds, or fails and the function returns Err
CanonicalizeWorkingDir ==
    /\ pc = "start"
    /\ \/ /\ canonical_working_dir' = Canonicalize(WorkingDir)
          /\ pc' = "roots"
          /\ UNCHANGED <<ret, result>>
       \/ /\ ret' = "err"
          /\ result' = <<>>
          /\ pc' = "done"
          /\ UNCHANGED canonical_working_dir
    /\ UNCHANGED <<scan, docs, src, disk, scan_idx, walk_roots, has_valid_scan_paths,
                   work, worker_done, stack, pushed, drained, grouped_files,
                   processed_abs_paths, faults, stderr>>
    /\ UNCHANGED <<outVars, relVars>>

\* mutant: an invalid root ends the loop (`break` for `continue`)
ScanRootBreak ==
    /\ pc = "roots"
    /\ scan_idx <= Len(scan)
    /\ LET scan_dir_config_path == scan[scan_idx]
           current_scan_target_abs == PathJoin(WorkingDir, scan_dir_config_path)
           canonical_scan_root == Canonicalize(current_scan_target_abs)
       IN  IF canonical_scan_root = NoPath \/ ~IsDir(canonical_scan_root)
           THEN /\ Warn("[WARNING] Skipping " \o DebugText(scan_dir_config_path))
                /\ scan_idx' = Len(scan) + 1
                /\ UNCHANGED <<has_valid_scan_paths, walk_roots>>
           ELSE /\ has_valid_scan_paths' = TRUE
                /\ walk_roots' = Append(walk_roots, canonical_scan_root)
                /\ scan_idx' = scan_idx + 1
                /\ UNCHANGED stderr
    /\ UNCHANGED <<pc, scan, docs, src, disk, canonical_working_dir, work, worker_done,
                   stack, pushed, drained, grouped_files, processed_abs_paths, faults,
                   result, ret>>
    /\ UNCHANGED <<outVars, relVars>>

\* one iteration of `for scan_dir_config_path in &config.scan`
ScanRoot ==
    /\ pc = "roots"
    /\ scan_idx <= Len(scan)
    /\ LET scan_dir_config_path == scan[scan_idx]
           current_scan_target_abs == PathJoin(WorkingDir, scan_dir_config_path)
           canonical_scan_root == Canonicalize(current_scan_target_abs)
       IN  IF canonical_scan_root = NoPath
           THEN /\ Warn("[WARNING] Failed to canonicalize scan directory "
                        \o DebugText(current_scan_target_abs))
                /\ UNCHANGED <<has_valid_scan_paths, walk_roots>>
           ELSE IF ~IsDir(canonical_scan_root)
           THEN /\ Warn("[WARNING] Scan path " \o DebugText(scan_dir_config_path)
                        \o " is not a directory")
                /\ UNCHANGED <<has_valid_scan_paths, walk_roots>>
           ELSE /\ has_valid_scan_paths' = TRUE
                /\ walk_roots' = Append(walk_roots, canonical_scan_root)
                /\ UNCHANGED stderr
    /\ scan_idx' = scan_idx + 1
    /\ UNCHANGED <<pc, scan, docs, src, disk, canonical_working_dir, work, worker_done,
                   stack, pushed, drained, grouped_files, processed_abs_paths, faults,
                   result, ret>>
    /\ UNCHANGED <<outVars, relVars>>

\* the entries of directory p, which the walker delivers once it has read p
Children(p) == { q \in Dirs \cup Files : Len(q) = Len(p) + 1 /\ IsPrefixOf(p, q) }

\* the walker starts with one entry per root given to the builder
RootEntries(roots) == { [root |-> i, path |-> roots[i]] : i \in 1..Len(roots) }

\* no valid root: return an empty result
NoValidScanPaths ==
    /\ pc = "roots"
    /\ scan_idx > Len(scan)
    /\ ~has_valid_scan_paths \/ walk_roots = <<>>
    /\ Warn("[INFO] No valid scan directories to process.")
    /\ result' = <<>>
    /\ ret' = "ok"
    /\ pc' = "done"
    /\ UNCHANGED <<walkVars, faults>>
    /\ UNCHANGED <<outVars, relVars>>

\* walk_builder.build_parallel().run(..) starts the walker threads
StartWalk ==
    /\ pc = "roots"
    /\ scan_idx > Len(scan)
    /\ has_valid_scan_paths /\ walk_roots # <<>>
    /\ work' = RootEntries(walk_roots)
    /\ pc' = "walk"
    /\ UNCHANGED <<scan, docs, src, disk, canonical_working_dir, scan_idx, walk_roots,
                   has_valid_scan_paths, worker_done, stack, pushed, drained, grouped_files,
                   processed_abs_paths, faults, stderr, result, ret>>
    /\ UNCHANGED <<outVars, relVars>>

----------------------------------------------------------------------------
(* process_all_categories: the parallel walk *)

FileData(rel, abs, size) == [relative_path |-> rel, absolute_path |-> abs, size |-> size]

\* mutant: a push that races with another loses what was on the stack
PushLosing(stk, e) == <<e>>

\* Stack::push: the new node becomes the top in one compare-and-swap
Push(stk, e) == <<e>> \o stk

\* what can happen to one delivered entry; "resized" is a file whose length has
\* changed since the run began
Outcomes(item) ==
    {"ok"} \cup
    (IF faults < MaxFaults
     THEN {"walk_err"} \cup
          (IF item.path \in Files THEN {"canon_err", "meta_err", "resized"} ELSE {})
     ELSE {})

\* the length metadata reports for a file that has been resized
ResizedLen(n) == IF n < MaxFileBlocks THEN n + 1 ELSE n - 1

\* mutant: a per-file failure returns WalkState::Quit and the walk stops
WalkStateQuit(wk, item, outcome) ==
    IF outcome \in {"canon_err", "meta_err"} THEN {}
    ELSE (wk \ {item}) \cup
         (IF outcome = "ok" /\ item.path \in Dirs
          THEN { [root |-> item.root, path |-> q] : q \in Children(item.path) }
          ELSE {})

\* the closure returns WalkState::Continue: the entry is done with, and the
\* walker goes on with the entries of a directory it could read
WalkStateContinue(wk, item, outcome) ==
    (wk \ {item}) \cup
    (IF outcome = "ok" /\ item.path \in Dirs
     THEN { [root |-> item.root, path |-> q] : q \in Children(item.path) }
     ELSE {})

\* the per-entry closure, run by walker thread w on one entry
Callback(w) ==
    /\ pc = "walk"
    /\ w \notin worker_done
    /\ \E item \in work : \E outcome \in Outcomes(item) :
        /\ work' = WalkStateContinue(work, item, outcome)
        /\ faults' = IF outcome = "ok" THEN faults ELSE faults + 1
        /\ IF outcome = "walk_err"
           THEN /\ Warn("Warning: Error walking directory entry")
                /\ UNCHANGED <<stack, pushed, drained>>
           ELSE IF item.path \notin Files
           THEN UNCHANGED <<stack, pushed, drained, stderr>>
           ELSE IF outcome = "canon_err"
           THEN /\ Warn("Warning: Failed to canonicalize path for file "
                        \o DebugText(item.path))
                /\ UNCHANGED <<stack, pushed, drained>>
           ELSE IF outcome = "meta_err"
           THEN /\ Warn("Warning: Failed to get metadata for file "
                        \o DebugText(Canonicalize(item.path)))
                /\ UNCHANGED <<stack, pushed, drained>>
           ELSE LET file_absolute_path_canonical == Canonicalize(item.path)
                    file_size == IF outcome = "resized" THEN ResizedLen(disk[item.path])
                                 ELSE disk[item.path]
                    rel == create_relative_path(canonical_working_dir,
                                                file_absolute_path_canonical)
                IN  IF ~rel.ok
                    THEN /\ Warn("Warning: Failed to create relative path for "
                              \o DebugText(file_absolute_path_canonical))
                         /\ UNCHANGED <<stack, pushed, drained>>
                    ELSE LET category_type == categorize_file(rel.path, docs, src)
                             entry == [category |-> category_type,
                                       file |-> FileData(rel.path,
                                                         file_absolute_path_canonical,
                                                         file_size)]
                         IN  /\ stack' = Push(stack, entry)
                             /\ pushed' = Append(pushed, entry)
                             /\ UNCHANGED <<drained, stderr>>
    /\ UNCHANGED <<pc, scan, docs, src, disk, canonical_working_dir, scan_idx, walk_roots,
                   has_valid_scan_paths, worker_done, grouped_files,
                   processed_abs_paths, result, ret>>
    /\ UNCHANGED <<outVars, relVars>>

\* a walker thread finds no work left and returns
WorkerExit(w) ==
    /\ pc = "walk"
    /\ w \notin worker_done
    /\ work = {}
    /\ worker_done' = worker_done \cup {w}
    /\ UNCHANGED <<pc, scan, docs, src, disk, canonical_working_dir, scan_idx, walk_roots,
                   has_valid_scan_paths, work, stack, pushed, drained, grouped_files,
                   processed_abs_paths, faults, stderr, result, ret>>
    /\ UNCHANGED <<outVars, relVars>>

\* mutant: the drain starts without waiting for the walker threads
JoinNoWait ==
    /\ pc = "walk"
    /\ pc' = "drain"
    /\ UNCHANGED <<walkVars, faults, stderr, result, ret>>
    /\ UNCHANGED <<outVars, relVars>>

\* run() returns once every walker thread has been joined
Join ==
    /\ pc = "walk"
    /\ worker_done = Workers
    /\ pc' = "drain"
    /\ UNCHANGED <<walkVars, faults, stderr, result, ret>>
    /\ UNCHANGED <<outVars, relVars>>

----------------------------------------------------------------------------
(* process_all_categories: drain, group, sum and sort *)

\* mutant: the result of processed_abs_paths.insert is ignored
DrainInsertNoDedup(g, seen, e) ==
    [grouped |-> [c \in DOMAIN g \cup {e.category} |->
                    IF c = e.category
                    THEN Append(IF c \in DOMAIN g THEN g[c] ELSE <<>>, e.file)
                    ELSE g[c]],
     seen |-> seen \cup {e.file.absolute_path}]

\* mutant: a later entry for a path replaces the one kept
DrainInsertLastWins(g, seen, e) ==
    IF e.file.absolute_path \notin seen
    THEN [grouped |-> [c \in DOMAIN g \cup {e.category} |->
                         IF c = e.category
                         THEN Append(IF c \in DOMAIN g THEN g[c] ELSE <<>>, e.file)
                         ELSE g[c]],
          seen |-> seen \cup {e.file.absolute_path}]
    ELSE [grouped |-> [c \in DOMAIN g |->
                         [k \in 1..Len(g[c]) |->
                            IF g[c][k].absolute_path = e.file.absolute_path
                            THEN e.file ELSE g[c][k]]],
          seen |-> seen]

\* one iteration of `for result in categorized_results_stack`
DrainInsert(g, seen, e) ==
    IF e.file.absolute_path \notin seen
    THEN [grouped |-> [c \in DOMAIN g \cup {e.category} |->
                         IF c = e.category
                         THEN Append(IF c \in DOMAIN g THEN g[c] ELSE <<>>, e.file)
                         ELSE g[c]],
          seen |-> seen \cup {e.file.absolute_path}]
    ELSE [grouped |-> g, seen |-> seen]

DrainStep ==
    /\ pc = "drain"
    /\ stack # <<>>
    /\ LET r == DrainInsert(grouped_files, processed_abs_paths, Head(stack)) IN
        /\ grouped_files' = r.grouped
        /\ processed_abs_paths' = r.seen
    /\ stack' = Tail(stack)
    /\ drained' = Append(drained, Head(stack))
    /\ UNCHANGED <<pc, scan, docs, src, disk, canonical_working_dir, scan_idx, walk_roots,
                   has_valid_scan_paths, work, worker_done, pushed, faults, stderr,
                   result, ret>>
    /\ UNCHANGED <<outVars, relVars>>

RECURSIVE ExactSum(_)
ExactSum(files) ==
    IF files = <<>> THEN 0 ELSE Head(files).size + ExactSum(Tail(files))

\* files.iter().map(|f| f.size).sum() in u64 arithmetic without overflow checks
WrappingSum(files) == ExactSum(files) % U64Blocks

category_types_to_consider == <<"Docs", "Src", "Other">>

\* mutant: a bucket is built for every category, matched or not
RECURSIVE CollectAllCategories(_, _)
CollectAllCategories(g, i) ==
    IF i > Len(category_types_to_consider) THEN <<>>
    ELSE LET cat_type == category_types_to_consider[i]
             files == IF cat_type \in DOMAIN g THEN g[cat_type] ELSE <<>>
         IN  <<[description_text |-> get_description(cat_type),
                files |-> files,
                total_size |-> WrappingSum(files)]>>
             \o CollectAllCategories(g, i + 1)

RECURSIVE CollectCategories(_, _)
CollectCategories(g, i) ==
    IF i > Len(category_types_to_consider) THEN <<>>
    ELSE LET cat_type == category_types_to_consider[i] IN
         IF cat_type \in DOMAIN g /\ g[cat_type] # <<>>
         THEN <<[description_text |-> get_description(cat_type),
                 files |-> g[cat_type],
                 total_size |-> WrappingSum(g[cat_type])]>>
              \o CollectCategories(g, i + 1)
         ELSE CollectCategories(g, i + 1)

\* mutant: an unstable sort that puts an element before its equals
InsertBeforeEquals(sorted, x) ==
    LET k == Cardinality({ i \in 1..Len(sorted) : sorted[i].total_size > x.total_size })
    IN  SubSeq(sorted, 1, k) \o <<x>> \o SubSeq(sorted, k + 1, Len(sorted))

\* Vec::sort_by(|a, b| b.total_size.cmp(&a.total_size)): stable, descending
InsertByTotalDesc(sorted, x) ==
    LET k == Cardinality({ i \in 1..Len(sorted) : sorted[i].total_size >= x.total_size })
    IN  SubSeq(sorted, 1, k) \o <<x>> \o SubSeq(sorted, k + 1, Len(sorted))

RECURSIVE SortByTotalDesc(_)
SortByTotalDesc(s) ==
    IF s = <<>> THEN <<>>
    ELSE InsertByTotalDesc(SortByTotalDesc(SubSeq(s, 1, Len(s) - 1)), s[Len(s)])

SumOverflows(g) == \E c \in DOMAIN g : ExactSum(g[c]) >= U64Blocks

\* lines 256-277; a sum past u64 wraps, or panics in a build with overflow checks
BuildResult ==
    /\ pc = "drain"
    /\ stack = <<>>
    /\ \/ /\ result' = SortByTotalDesc(CollectCategories(grouped_files, 1))
          /\ ret' = "ok"
       \/ /\ SumOverflows(grouped_files)
          /\ result' = <<>>
          /\ ret' = "panic"
    /\ pc' = "done"
    /\ UNCHANGED <<walkVars, faults, stderr>>
    /\ UNCHANGED <<outVars, relVars>>

Next ==
    \/ CanonicalizeWorkingDir
    \/ ScanRoot
    \/ NoValidScanPaths
    \/ StartWalk
    \/ \E w \in Workers : Callback(w)
    \/ \E w \in Workers : WorkerExit(w)
    \/ Join
    \/ DrainStep
    \/ BuildResult

Spec == Init /\ [][Next]_vars

----------------------------------------------------------------------------
(* Properties of process_all_categories *)

Returned == pc = "done" /\ ret = "ok"

RECURSIVE AllFiles(_)
AllFiles(buckets) ==
    IF buckets = <<>> THEN <<>> ELSE Head(buckets).files \o AllFiles(Tail(buckets))

Occurrences(files, abs) ==
    Cardinality({ i \in 1..Len(files) : files[i].absolute_path = abs })

CategoryOf(bucket) ==
    CHOOSE c \in FileCategoryType : get_description(c) = bucket.description_text

Priority(c) == CHOOSE i \in 1..3 : category_types_to_consider[i] = c

\* C1: every entry the walk pushes carries exactly one of Docs, Src, Other, chosen
\* by fixed precedence: Docs whenever the docs matcher matches its relative path
\* (also when src matches too), Src when only src matches, Other when neither does.
C1_CategoryPrecedence ==
    \A i \in 1..Len(pushed) :
        LET e == pushed[i]
            inDocs == is_match(docs, e.file.relative_path)
            inSrc == is_match(src, e.file.relative_path)
        IN  /\ e.category \in FileCategoryType
            /\ inDocs => e.category = "Docs"
            /\ (~inDocs /\ inSrc) => e.category = "Src"
            /\ (~inDocs /\ ~inSrc) => e.category = "Other"

\* a file matching both matchers has been classified, and one matching only src
C1_Witness ==
    /\ \E i \in 1..Len(pushed) :
          /\ is_match(docs, pushed[i].file.relative_path)
          /\ is_match(src, pushed[i].file.relative_path)
          /\ pushed[i].category = "Docs"
    /\ \E i \in 1..Len(pushed) : pushed[i].category = "Src"

\* C2: in the returned ResultSet every canonical absolute path occurs at most once
\* over all buckets, and every path pushed at least once occurs exactly once.
C2_PathOnce ==
    Returned =>
        LET files == AllFiles(result) IN
        /\ \A i \in 1..Len(files) : Occurrences(files, files[i].absolute_path) = 1
        /\ \A i \in 1..Len(pushed) :
              Occurrences(files, pushed[i].file.absolute_path) = 1

\* a file was discovered twice, through two scan roots, and the result is returned
C2_Witness ==
    /\ Returned
    /\ \E i, j \in 1..Len(pushed) :
          /\ i < j
          /\ pushed[i].file.absolute_path = pushed[j].file.absolute_path
    /\ Len(walk_roots) = 2 /\ walk_roots[1] # walk_roots[2]
    /\ Len(AllFiles(result)) < Len(pushed)

\* C3: in the returned ResultSet every bucket's total_size is the exact sum of the
\* sizes of its files.
C3_TotalIsExactSum ==
    Returned => \A i \in 1..Len(result) : result[i].total_size = ExactSum(result[i].files)

\* C4: no bucket of the returned ResultSet is empty, a category has a bucket exactly
\* when some pushed entry was classified to it, and no category has two buckets.
C4_NoEmptyBucket ==
    Returned =>
        /\ \A i \in 1..Len(result) : result[i].files # <<>>
        /\ \A i, j \in 1..Len(result) :
              result[i].description_text = result[j].description_text => i = j
        /\ \A c \in FileCategoryType :
              (\E i \in 1..Len(result) : result[i].description_text = get_description(c))
              <=> (\E k \in 1..Len(pushed) : pushed[k].category = c)

\* files were found, yet some category got none and is absent
C4_Witness ==
    /\ Returned
    /\ pushed # <<>>
    /\ Len(result) \in {1, 2}
    /\ \E c \in FileCategoryType :
          \A i \in 1..Len(result) : result[i].description_text # get_description(c)

\* C5: the buckets are ordered by total_size descending, buckets with equal
\* total_size in the order Docs, Src, Other; the spec's scenario (docs file smaller
\* than the src file, the other file smallest) gives [Src, Docs, Other].
C5_BucketOrder ==
    Returned =>
        /\ \A i, j \in 1..Len(result) :
              i < j =>
                 /\ result[i].total_size >= result[j].total_size
                 /\ result[i].total_size = result[j].total_size
                      => Priority(CategoryOf(result[i])) < Priority(CategoryOf(result[j]))
        /\ ( /\ disk = DiskOf(2, 3, 1)
             /\ docs = {RelReadme} /\ src = {RelMain}
             /\ Len(AllFiles(result)) = 3
             /\ \A i \in 1..3 :
                   AllFiles(result)[i].size = disk[AllFiles(result)[i].absolute_path] )
           => /\ Len(result) = 3
              /\ result[1].description_text = SRC_DESCRIPTION
              /\ result[2].description_text = DOCS_DESCRIPTION
              /\ result[3].description_text = OTHER_DESCRIPTION

\* Docs and Other tie and both outweigh Src: the sort moved Other before Src and
\* kept Docs before Other
C5_Witness ==
    /\ Returned
    /\ Len(result) = 3
    /\ result[1].description_text = DOCS_DESCRIPTION
    /\ result[2].description_text = OTHER_DESCRIPTION
    /\ result[3].description_text = SRC_DESCRIPTION
    /\ result[1].total_size = result[2].total_size
    /\ result[2].total_size > result[3].total_size

NoValidRoot ==
    \A i \in 1..Len(scan) : Canonicalize(PathJoin(WorkingDir, scan[i])) \notin Dirs

\* C10 as stated: whenever no configured scan root is valid the function returns a
\* successful empty ResultSet and never an error.
C10_NoValidRootNeverError ==
    (pc = "done" /\ NoValidRoot) => (ret = "ok" /\ result = <<>>)

\* C10 amended: when the working directory canonicalizes and no configured scan
\* root is valid, the function returns a successful empty ResultSet.
C10_NoValidRootEmptyOk ==
    (pc = "done" /\ NoValidRoot /\ canonical_working_dir # NoPath)
        => (ret = "ok" /\ result = <<>> /\ walk_roots = <<>> /\ pushed = <<>>)

\* two invalid roots were configured, skipped, and the empty result returned
C10_Witness ==
    /\ pc = "done"
    /\ NoValidRoot
    /\ Len(scan) = 2 /\ scan[1] # scan[2]
    /\ canonical_working_dir # NoPath
    /\ ret = "ok" /\ result = <<>>

HasPrefix(msg, prefix) == Len(msg) >= Len(prefix) /\ SubSeq(msg, 1, Len(prefix)) = prefix

\* how many of the messages begin with prefix
Count(seq, prefix) == Cardinality({ k \in 1..Len(seq) : HasPrefix(seq[k], prefix) })

RootWarningPrefix == "[WARNING]"

WalkErrorPrefix == "Warning: Error walking"

FileWarningPrefix == "Warning: Failed"

RootIsValid(i) == Canonicalize(PathJoin(WorkingDir, scan[i])) \in Dirs

\* the canonical roots of the valid ones among the first n configured roots, in order
RECURSIVE ValidRoots(_)
ValidRoots(n) ==
    IF n = 0 THEN <<>>
    ELSE IF RootIsValid(n)
         THEN Append(ValidRoots(n - 1), Canonicalize(PathJoin(WorkingDir, scan[n])))
         ELSE ValidRoots(n - 1)

FilesUnder(dir) == { f \in Files : IsPrefixOf(dir, f) }

\* the number of files one traversal of every root in roots comes upon
RECURSIVE Discoveries(_)
Discoveries(roots) ==
    IF roots = <<>> THEN 0
    ELSE Cardinality(FilesUnder(Head(roots))) + Discoveries(Tail(roots))

\* C11: once the loop over the configured roots has examined n of them, the
\* diagnostic channel holds exactly one warning for each invalid one among them
\* (missing, not a directory, not canonicalizable) and the walker has been given
\* exactly the valid ones, in order, wherever the invalid ones stand in the list;
\* when the walk is over every valid root has been traversed: every pushed file
\* lies under a valid root, and unless the walker itself reported an error the
\* pushes and per-file warnings add up to one discovery per file per valid root.
C11_InvalidRootsSkipped ==
    /\ pc # "start" =>
          /\ walk_roots = ValidRoots(scan_idx - 1)
          /\ Count(stderr, RootWarningPrefix)
                = Cardinality({ i \in 1..(scan_idx - 1) : ~RootIsValid(i) })
    /\ (pc \in {"walk", "drain", "done"} /\ canonical_working_dir # NoPath) =>
          scan_idx = Len(scan) + 1
    /\ (pc \in {"drain", "done"} /\ canonical_working_dir # NoPath) =>
          /\ work = {}
          /\ \A k \in 1..Len(pushed) :
                \E i \in 1..Len(walk_roots) :
                    pushed[k].file.absolute_path \in FilesUnder(walk_roots[i])
          /\ Count(stderr, WalkErrorPrefix) = 0 =>
                Len(pushed) + Count(stderr, FileWarningPrefix) = Discoveries(walk_roots)

\* an invalid root stood between two valid ones: one warning, and the files of
\* both valid roots were found
C11_Witness ==
    /\ Returned
    /\ Len(scan) = 3
    /\ RootIsValid(1) /\ ~RootIsValid(2) /\ RootIsValid(3)
    /\ Count(stderr, RootWarningPrefix) = 1
    /\ \E k \in 1..Len(pushed) : pushed[k].file.absolute_path = ReadmeFile
    /\ \E k \in 1..Len(pushed) : pushed[k].file.absolute_path = DataFile

EndsWith(msg, suffix) ==
    Len(msg) >= Len(suffix) /\ SubSeq(msg, Len(msg) - Len(suffix) + 1, Len(msg)) = suffix

\* how many per-file warnings name file f
FileWarnings(f) ==
    Cardinality({ k \in 1..Len(stderr) :
                    HasPrefix(stderr[k], FileWarningPrefix) /\ EndsWith(stderr[k], DebugText(f)) })

\* how many pushed entries are for file f
Pushes(f) == Cardinality({ k \in 1..Len(pushed) : pushed[k].file.absolute_path = f })

\* how many of the roots given to the walker have file f below them
Covering(f) == Cardinality({ i \in 1..Len(walk_roots) : f \in FilesUnder(walk_roots[i]) })

InResult(f) == \E i \in 1..Len(AllFiles(result)) : AllFiles(result)[i].absolute_path = f

\* C12 as stated: a file for which a per-file warning was logged is absent from
\* the returned ResultSet, and every file under a valid root that has no warning
\* of its own (and no walker error in the run) is present.
C12_FailedFileAbsent ==
    Returned =>
        \A f \in Files :
            /\ FileWarnings(f) > 0 => ~InResult(f)
            /\ (FileWarnings(f) = 0 /\ Covering(f) > 0
                  /\ Count(stderr, WalkErrorPrefix) = 0) => InResult(f)

\* C12 amended: a callback that fails on a file logs one warning, pushes nothing
\* and lets the walk go on with every other entry; a file is in the returned
\* ResultSet exactly when some discovery of it pushed an entry, so a file whose
\* only discovery failed is absent, a file discovered again through a duplicate
\* or overlapping root is present when one of its discoveries succeeded, and
\* every file under a valid root with no warning of its own is present (unless
\* the walker itself reported an error).
C12_FailedDiscoverySkipped ==
    /\ [](Returned =>
            \A f \in Files :
                /\ InResult(f) <=> Pushes(f) > 0
                /\ Count(stderr, WalkErrorPrefix) = 0 =>
                      Pushes(f) + FileWarnings(f) = Covering(f)
                /\ (FileWarnings(f) > 0 /\ Covering(f) = 1) => ~InResult(f)
                /\ (FileWarnings(f) = 0 /\ Covering(f) > 0
                      /\ Count(stderr, WalkErrorPrefix) = 0) => InResult(f))
    /\ [][Count(stderr', FileWarningPrefix) > Count(stderr, FileWarningPrefix) =>
            /\ Len(stderr') = Len(stderr) + 1
            /\ pushed' = pushed /\ stack' = stack
            /\ pc' = "walk"
            /\ \E item \in work : item.path \in Files /\ work' = work \ {item}]_vars

\* the only discovery of README.md failed: it is absent, and the other file of
\* the tree is present
C12_Witness ==
    /\ Returned
    /\ FileWarnings(ReadmeFile) = 1 /\ Covering(ReadmeFile) = 1
    /\ ~InResult(ReadmeFile)
    /\ InResult(MainFile)

\* the directories given to the walker, each counted once
RootSet == { walk_roots[i] : i \in 1..Len(walk_roots) }

\* the files of category c below the directories of roots
FilesOfCategory(roots, c) ==
    { f \in UNION { FilesUnder(r) : r \in roots } :
        categorize_file(create_relative_path(canonical_working_dir, f).path, docs, src) = c }

RECURSIVE DiskSum(_)
DiskSum(fs) ==
    IF fs = {} THEN 0
    ELSE LET f == CHOOSE x \in fs : TRUE IN disk[f] + DiskSum(fs \ {f})

BucketsOf(c) == { i \in 1..Len(result) : result[i].description_text = get_description(c) }

\* C16: when no entry fails, the returned buckets depend only on the set of
\* canonical directories given to the walker, not on how often a directory is
\* configured: a category has a bucket exactly when it has a file below one of
\* them, the bucket holds each such file once with its size, and its
\* total_size is the u64 sum of those sizes, the same as for one mention of each
\* directory.
C16_DuplicateRootChangesNothing ==
    (Returned /\ faults = 0) =>
        \A c \in FileCategoryType :
            LET expected == FilesOfCategory(RootSet, c) IN
            /\ Cardinality(BucketsOf(c)) = IF expected = {} THEN 0 ELSE 1
            /\ \A i \in BucketsOf(c) :
                  /\ Len(result[i].files) = Cardinality(expected)
                  /\ { result[i].files[k].absolute_path : k \in 1..Len(result[i].files) }
                        = expected
                  /\ \A k \in 1..Len(result[i].files) :
                        result[i].files[k].size = disk[result[i].files[k].absolute_path]
                  /\ result[i].total_size = DiskSum(expected) % U64Blocks

\* the working directory was configured twice: its two files were each found
\* twice and are returned once
C16_Witness ==
    /\ Returned
    /\ faults = 0
    /\ Len(walk_roots) = 2 /\ walk_roots[1] = walk_roots[2]
    /\ Len(pushed) = 4
    /\ Len(AllFiles(result)) = 2

\* C17: the drain begins only when every walker thread has returned and no entry
\* is left to deliver: an entry leaves the stack only in such a state, and once
\* the first entry has been drained nothing is pushed any more.
C17_DrainAfterJoin ==
    /\ []((pc = "drain" \/ drained # <<>>) => (worker_done = Workers /\ work = {}))
    /\ [][drained' # drained => (worker_done = Workers /\ work = {} /\ pushed' = pushed)]_vars
    /\ [][drained # <<>> => pushed' = pushed]_vars

\* both walker threads have returned after pushing several entries, and the
\* drain is part of the way through them
C17_Witness ==
    /\ pc = "drain"
    /\ worker_done = Workers
    /\ Len(pushed) >= 3
    /\ drained # <<>>
    /\ stack # <<>>

\* how often entry e occurs in seq
Copies(seq, e) == Cardinality({ k \in 1..Len(seq) : seq[k] = e })

EntriesSeen == { pushed[k] : k \in 1..Len(pushed) }
                  \cup { stack[k] : k \in 1..Len(stack) }
                  \cup { drained[k] : k \in 1..Len(drained) }

\* the entries of work that a step has taken
Delivered == work \ work'

\* C18: whatever the order in which the walker threads push, every entry that
\* was pushed is on the stack or has been drained, as often as it was pushed,
\* and nothing else is; every entry is as the callback built it; when the drain
\* is over the entries drained are the entries pushed, each as often; a callback
\* that handles a file without a warning pushes exactly one entry, and no step
\* pushes more than one.
C18_NoEntryLost ==
    /\ [](\A e \in EntriesSeen :
            /\ Copies(stack, e) + Copies(drained, e) = Copies(pushed, e)
            /\ e.file.absolute_path \in Files
            /\ e.file.relative_path
                  = create_relative_path(canonical_working_dir, e.file.absolute_path).path
            /\ e.category = categorize_file(e.file.relative_path, docs, src)
            /\ e.file.size \in {disk[e.file.absolute_path],
                                 ResizedLen(disk[e.file.absolute_path])})
    /\ []((pc = "done" /\ canonical_working_dir # NoPath) =>
            /\ stack = <<>>
            /\ \A e \in EntriesSeen : Copies(drained, e) = Copies(pushed, e))
    /\ [][pushed' # pushed =>
            /\ Len(pushed') = Len(pushed) + 1
            /\ SubSeq(pushed', 1, Len(pushed)) = pushed
            /\ Len(stack') = Len(stack) + 1]_vars
    /\ [][(pc = "walk" /\ stderr' = stderr /\ \E item \in Delivered : item.path \in Files) =>
            /\ Len(pushed') = Len(pushed) + 1
            /\ pushed'[Len(pushed')].file.absolute_path
                  \in { item.path : item \in Delivered }]_vars

\* two walker threads have pushed the entries of two roots, the same file among
\* them twice, and the drain has taken them all
C18_Witness ==
    /\ pc = "done"
    /\ Len(pushed) >= 3
    /\ Len(drained) = Len(pushed)
    /\ \E e \in EntriesSeen : Copies(pushed, e) = 2

\* the position in the drain of the first entry for path abs
FirstDrained(abs) ==
    CHOOSE k \in 1..Len(drained) :
        /\ drained[k].file.absolute_path = abs
        /\ \A j \in 1..(k - 1) : drained[j].file.absolute_path # abs

\* the files kept in list files of category c are first-drained entries, in
\* drain order
KeptInDrainOrder(files, c) ==
    /\ \A a \in 1..Len(files) :
          /\ \E k \in 1..Len(drained) : drained[k].file.absolute_path = files[a].absolute_path
          /\ files[a] = drained[FirstDrained(files[a].absolute_path)].file
          /\ c = drained[FirstDrained(files[a].absolute_path)].category
    /\ \A a, b \in 1..Len(files) :
          a < b => FirstDrained(files[a].absolute_path) < FirstDrained(files[b].absolute_path)

\* C19: during the drain and in the returned ResultSet, the file kept for a
\* canonical absolute path is the first entry drained for that path, with that
\* entry's size and category, every path drained is kept once, and the files of
\* a bucket stand in the order in which their kept entries were drained.
C19_FirstDrainedWins ==
    /\ pc = "drain" =>
          /\ \A c \in DOMAIN grouped_files : KeptInDrainOrder(grouped_files[c], c)
          /\ processed_abs_paths = { drained[k].file.absolute_path : k \in 1..Len(drained) }
    /\ Returned =>
          /\ \A i \in 1..Len(result) : KeptInDrainOrder(result[i].files, CategoryOf(result[i]))
          /\ \A k \in 1..Len(drained) :
                Occurrences(AllFiles(result), drained[k].file.absolute_path) = 1

\* a file was drained twice with two sizes: the size drained first is the one
\* returned, in a bucket of two files
C19_Witness ==
    /\ Returned
    /\ \E i, j \in 1..Len(drained) :
          /\ i < j
          /\ drained[i].file.absolute_path = drained[j].file.absolute_path
          /\ drained[i].file.size # drained[j].file.size
          /\ \E n \in 1..Len(AllFiles(result)) : AllFiles(result)[n] = drained[i].file
    /\ \E i \in 1..Len(result) : Len(result[i].files) >= 2

----------------------------------------------------------------------------
(* Inputs of main and write_output *)

\* what a file can hold when it is opened for streaming: m bytes, the i-th of
\* which is written "i"
ContentChoices == { [i \in 1..m |-> ToString(i)] : m \in 0..MaxLen }

\* the command lines main is run with
CliChoices == { <<>>, << "" >>, << "fix" >>, << "fix", "" >>, << "fix", "it", "now" >> }

RECURSIVE JoinArgs(_)
\* cli_args.join(" ")
JoinArgs(args) ==
    IF Len(args) = 1 THEN args[1]
    ELSE args[1] \o " " \o JoinArgs(Tail(args))

\* the task_args of a direct call
TaskChoices == { None, Some("fix") }

RECURSIVE DrainAll(_, _, _)
DrainAll(stk, g, seen) ==
    IF stk = <<>> THEN g
    ELSE LET r == DrainInsert(g, seen, Head(stk)) IN DrainAll(Tail(stk), r.grouped, r.seen)

\* the ResultSet process_all_categories returns for the entries on the stack
ResultOf(stk) ==
    SortByTotalDesc(CollectCategories(DrainAll(stk, [c \in {} |-> <<>>], {}), 1))

\* the entries a walk can push for the streamed files under configuration c
EntriesFor(c) ==
    { [category |-> categorize_file(create_relative_path(WorkingDir, f).path, c.docs, c.src),
       file |-> FileData(create_relative_path(WorkingDir, f).path, f, n)] :
      f \in {ReadmeFile, DataFile}, n \in 0..MaxLen }

ResultChoices ==
    UNION { { ResultOf(stk) : stk \in SeqsUpTo(EntriesFor(c), MaxEntries) } :
            c \in ConfigChoices }

InitOut ==
    /\ scan = <<>>
    /\ docs = {}
    /\ src = {}
    /\ disk = DiskOf(0, 0, 0)
    /\ WalkIdle
    /\ faults = 0
    /\ stderr = <<>>
    /\ result \in ResultChoices
    /\ ret = "none"
    /\ OutIdle
    /\ RelIdle
    /\ \/ /\ caller = "main"
          /\ cli_args \in CliChoices
          /\ task_args = None
          /\ pc = "main_args"
       \/ /\ caller = "direct"
          /\ cli_args = <<>>
          /\ task_args \in TaskChoices
          /\ pc = "write_output"

----------------------------------------------------------------------------
(* main, from the collection of the arguments on *)

\* lines 34-39
MainArgs ==
    /\ pc = "main_args"
    /\ task_args' = IF cli_args = <<>> THEN None ELSE Some(JoinArgs(cli_args))
    /\ pc' = "main_load"
    /\ UNCHANGED <<walkVars, relVars, caller, cli_args, ci, fi, out_buf, sink, src_fd, open_fds, src_content,
                   sent_total, send_log, read_log, exit_code, faults, stderr, result, ret>>

\* what main prints before exit(1) when it cannot get as far as the output
SetupErrors ==
    { "[ERROR] Configuration error", "[ERROR] Failed to get current working directory",
      "[ERROR] Error processing files" }

\* what process_all_categories may have logged when it returns Ok
WalkWarningChoices == { <<>>, << "Warning: Error walking directory entry" >> }

\* the message and the exit status of a Rust process whose main thread panics
PanicMessage == "thread 'main' panicked"
PanicStatus == 101

\* lines 42-65: load_config, current_dir and process_all_categories succeed, the
\* last having logged its warnings and returned `result`, or one of them fails and
\* main prints the error and exits with status 1, or the sum of line 266 of
\* file_processor.rs overflows in a build with overflow checks
MainLoad ==
    /\ pc = "main_load"
    /\ \/ /\ \E w \in WalkWarningChoices : stderr' = stderr \o w
          /\ pc' = "main_check"
          /\ UNCHANGED exit_code
       \/ /\ \E e \in SetupErrors : Warn(e)
          /\ pc' = "exited"
          /\ exit_code' = 1
       \/ /\ Warn(PanicMessage)
          /\ pc' = "exited"
          /\ exit_code' = PanicStatus
    /\ UNCHANGED <<walkVars, relVars, caller, cli_args, task_args, ci, fi, out_buf, sink, src_fd, open_fds,
                   src_content, sent_total, send_log, read_log, faults, result, ret>>

\* lines 70-76: return when there is nothing to output, else call write_output
MainCheck ==
    /\ pc = "main_check"
    /\ IF result = <<>> /\ ~task_args.some
       THEN pc' = "exited" /\ exit_code' = 0
       ELSE pc' = "write_output" /\ UNCHANGED exit_code
    /\ UNCHANGED <<walkVars, relVars, caller, cli_args, task_args, ci, fi, out_buf, sink, src_fd, open_fds,
                   src_content, sent_total, send_log, read_log, faults, stderr, result, ret>>

\* mutant: the error of write_output is dropped and main ends normally
MainAfterWriteIgnoreErr ==
    /\ pc = "returned"
    /\ caller = "main"
    /\ exit_code' = 0
    /\ pc' = "exited"
    /\ UNCHANGED <<walkVars, relVars, caller, cli_args, task_args, ci, fi, out_buf, sink, src_fd, open_fds,
                   src_content, sent_total, send_log, read_log, faults, stderr, result, ret>>

\* lines 76-80
MainAfterWrite ==
    /\ pc = "returned"
    /\ caller = "main"
    /\ IF ret = "err"
       THEN Warn("[ERROR] Error writing output to stdout") /\ exit_code' = 1
       ELSE UNCHANGED stderr /\ exit_code' = 0
    /\ pc' = "exited"
    /\ UNCHANGED <<walkVars, relVars, caller, cli_args, task_args, ci, fi, out_buf, sink, src_fd, open_fds,
                   src_content, sent_total, send_log, read_log, faults, result, ret>>

----------------------------------------------------------------------------
(* The buffered writer over the stdout descriptor *)

\* BufWriter::write_all: the lines join the buffer, or the buffer is written out
\* first because they do not fit; that write can fail
BufWriteOutcomes(buf, snk, lines, canFail) ==
    { [buf |-> buf \o lines, sink |-> snk, ok |-> TRUE] }
    \cup (IF buf # <<>> /\ lines # <<>>
          THEN { [buf |-> lines, sink |-> snk \o buf, ok |-> TRUE] }
          ELSE {})
    \cup (IF canFail /\ buf # <<>> /\ lines # <<>>
          THEN { [buf |-> buf, sink |-> snk, ok |-> FALSE] }
          ELSE {})

\* mutant: only the inner writer is flushed, which does nothing
FlushOutcomesInnerOnly(buf, snk, canFail) == { [buf |-> buf, sink |-> snk, ok |-> TRUE] }

\* BufWriter::flush over FdWriter::write: the buffer reaches the descriptor, or the
\* write fails (an error, or 0 bytes written) and the buffer keeps its lines
FlushOutcomes(buf, snk, canFail) ==
    { [buf |-> <<>>, sink |-> snk \o buf, ok |-> TRUE] }
    \cup (IF canFail /\ buf # <<>>
          THEN { [buf |-> buf, sink |-> snk, ok |-> FALSE] }
          ELSE {})

\* BufWriter::drop flushes what is left and ignores a failure
DropOutcomes(buf, snk) == { snk, snk \o buf }

\* mutant: the descriptor is forgotten, never closed
DropFdLeak(fds, fd) == fds

\* OwnedFd::drop at the end of the loop body or on an early return: close(fd)
DropFd(fds, fd) == fds \ {fd}

\* an early `return Err(..)` or `?`: the source descriptor and the writer are dropped
ReturnErr(buf, snk) ==
    /\ sink' \in DropOutcomes(buf, snk)
    /\ out_buf' = <<>>
    /\ src_fd' = NoPath
    /\ open_fds' = IF src_fd # NoPath THEN DropFd(open_fds, Len(read_log)) ELSE open_fds
    /\ ret' = "err"
    /\ pc' = "returned"

CanFail == faults < MaxFaults

----------------------------------------------------------------------------
(* write_output *)

RECURSIVE Display(_)
\* Path::display of a relative path
Display(path) ==
    IF Len(path) = 1 THEN path[1] ELSE path[1] \o "/" \o Display(Tail(path))

CategoryHeaderLines(category_data) ==
    << "<category>\n", "<description>\n", category_data.description_text \o "\n",
       "</description>\n", "<files>\n" >>

FileHeaderLines(file_data) ==
    << "<file>\n", "<path>\n", Display(file_data.relative_path) \o "\n", "</path>\n",
       "<content>\n" >>

FileFooterLines == << "\n", "</content>\n", "</file>\n" >>

CategoryFooterLines == << "</files>\n", "</category>\n" >>

\* mutant: an empty joined string is treated as no task
TaskLinesSkipEmpty(task) ==
    IF task.some /\ task.val # "" THEN << "<task>" \o task.val \o "</task>\n" >> ELSE <<>>

TaskLines(task) ==
    IF task.some THEN << "<task>" \o task.val \o "</task>\n" >> ELSE <<>>

\* lines 64-67
NothingToDo(categories_data, task) == categories_data = <<>> /\ ~task.some

\* mutant: having nothing to write is reported as an error
EarlyReturnErr == "err"

\* line 66: return Ok(())
EarlyReturn == "ok"

\* lines 64-77: the early return, or the writer is set up
WriteOutputEntry ==
    /\ pc = "write_output"
    /\ IF NothingToDo(result, task_args)
       THEN /\ ret' = EarlyReturn
            /\ pc' = "returned"
       ELSE /\ pc' = "category"
            /\ UNCHANGED ret
    /\ ci' = 1
    /\ UNCHANGED <<walkVars, relVars, caller, cli_args, task_args, fi, out_buf, sink, src_fd, open_fds,
                   src_content, sent_total, send_log, read_log, exit_code, faults, stderr, result>>

\* lines 79-86: the next bucket's header, or the loop over the buckets ends
CategoryHeader ==
    /\ pc = "category"
    /\ IF ci > Len(result)
       THEN /\ pc' = "task"
            /\ UNCHANGED <<out_buf, sink, src_fd, open_fds, ret, faults, fi>>
       ELSE \E o \in BufWriteOutcomes(out_buf, sink, CategoryHeaderLines(result[ci]), CanFail) :
              IF o.ok
              THEN /\ out_buf' = o.buf
                   /\ sink' = o.sink
                   /\ fi' = 1
                   /\ pc' = "file"
                   /\ UNCHANGED <<src_fd, open_fds, ret, faults>>
              ELSE /\ ReturnErr(o.buf, o.sink)
                   /\ faults' = faults + 1
                   /\ UNCHANGED fi
    /\ UNCHANGED <<walkVars, relVars, caller, cli_args, task_args, ci, src_content, sent_total, send_log,
                   read_log, exit_code, stderr, result>>

\* lines 88-95: the next file's header, or lines 149-150 after the bucket's last file
FileHeader ==
    /\ pc = "file"
    /\ LET files == result[ci].files
           last == fi > Len(files)
           lines == IF last THEN CategoryFooterLines ELSE FileHeaderLines(files[fi])
       IN  \E o \in BufWriteOutcomes(out_buf, sink, lines, CanFail) :
              IF o.ok
              THEN /\ out_buf' = o.buf
                   /\ sink' = o.sink
                   /\ pc' = IF last THEN "category" ELSE "flush"
                   /\ ci' = IF last THEN ci + 1 ELSE ci
                   /\ UNCHANGED <<src_fd, open_fds, ret, faults>>
              ELSE /\ ReturnErr(o.buf, o.sink)
                   /\ faults' = faults + 1
                   /\ UNCHANGED ci
    /\ UNCHANGED <<walkVars, relVars, caller, cli_args, task_args, fi, src_content, sent_total, send_log,
                   read_log, exit_code, stderr, result>>

\* mutant: the flush before the transfer is left out
NoFlushBeforeSend ==
    /\ pc = "flush"
    /\ pc' = "open"
    /\ UNCHANGED <<walkVars, relVars, caller, cli_args, task_args, ci, fi, out_buf, sink, src_fd, open_fds,
                   src_content, sent_total, send_log, read_log, exit_code, faults, stderr, result, ret>>

\* line 96: buffered_stdout.flush() before the transfer
FlushBeforeSend ==
    /\ pc = "flush"
    /\ \E o \in FlushOutcomes(out_buf, sink, CanFail) :
          IF o.ok
          THEN /\ out_buf' = o.buf
               /\ sink' = o.sink
               /\ pc' = "open"
               /\ UNCHANGED <<src_fd, open_fds, ret, faults>>
          ELSE /\ ReturnErr(o.buf, o.sink)
               /\ faults' = faults + 1
    /\ UNCHANGED <<walkVars, relVars, caller, cli_args, task_args, ci, fi, src_content, sent_total, send_log,
                   read_log, exit_code, stderr, result>>

\* lines 98-113: open the file, which holds whatever it holds by now
OpenSource ==
    /\ pc = "open"
    /\ LET file_data == result[ci].files[fi] IN
       \/ \E content \in ContentChoices :
             /\ src_fd' = file_data.absolute_path
             /\ open_fds' = open_fds \cup {Len(read_log) + 1}
             /\ src_content' = content
             /\ read_log' = Append(read_log, [path |-> file_data.absolute_path,
                                              content |-> content])
             /\ sent_total' = 0
             /\ send_log' = <<>>
             /\ pc' = IF file_data.size > 0 THEN "sendfile" ELSE "file_end"
             /\ UNCHANGED <<out_buf, sink, ret, faults>>
       \/ /\ CanFail
          /\ ReturnErr(out_buf, sink)
          /\ faults' = faults + 1
          /\ UNCHANGED <<src_content, read_log, sent_total, send_log>>
    /\ UNCHANGED <<walkVars, relVars, caller, cli_args, task_args, ci, fi, exit_code, stderr, result>>

\* mutant: every call transfers from the start of the file
SendBytesFromStart(content, offset, n) == SubSeq(content, 1, n)

\* the n bytes sendfile moves from the descriptor's offset
SendBytes(content, offset, n) == SubSeq(content, offset + 1, offset + n)

\* mutant: the count given to sendfile is ignored
MinIgnoringCount(a, b) == b

\* sendfile moves at most `count` bytes and at most what the file still holds
Min(a, b) == IF a < b THEN a ELSE b

\* one sendfile call as the history keeps it
SendCall(requested, outcome, sent) ==
    [requested |-> requested, outcome |-> outcome, sent |-> sent]

\* mutant: every call asks for the whole file
RemainingToSendWhole(file_size, sent) == file_size

\* line 115
RemainingToSend(file_size, sent) == file_size - sent

\* mutant: a call that moved nothing is tried again
SendFileRetryZero ==
    /\ pc = "sendfile"
    /\ LET file_size == result[ci].files[fi].size
           remaining_to_send == RemainingToSend(file_size, sent_total)
           available == Len(src_content) - sent_total
       IN  \/ \E bytes_sent_this_call \in 1..Min(remaining_to_send, available) :
                 /\ sink' = sink \o SendBytes(src_content, sent_total, bytes_sent_this_call)
                 /\ sent_total' = sent_total + bytes_sent_this_call
                 /\ send_log' = Append(send_log, SendCall(remaining_to_send, "ok",
                                                          bytes_sent_this_call))
                 /\ pc' = IF sent_total' < file_size THEN "sendfile" ELSE "file_end"
                 /\ UNCHANGED <<out_buf, src_fd, open_fds, ret, faults>>
           \/ /\ available <= 0
              /\ UNCHANGED <<pc, out_buf, sink, src_fd, open_fds, ret, sent_total, faults,
                             send_log>>
           \/ /\ CanFail                 \* Errno::INTR: continue
              /\ faults' = faults + 1
              /\ send_log' = Append(send_log, SendCall(remaining_to_send, "intr", 0))
              /\ UNCHANGED <<pc, out_buf, sink, src_fd, open_fds, ret, sent_total>>
           \/ /\ CanFail                 \* any other error
              /\ ReturnErr(out_buf, sink)
              /\ faults' = faults + 1
              /\ send_log' = Append(send_log, SendCall(remaining_to_send, "err", 0))
              /\ UNCHANGED sent_total
    /\ UNCHANGED <<walkVars, relVars, caller, cli_args, task_args, ci, fi, src_content, read_log,
                   exit_code, stderr, result>>

\* lines 114-142: one sendfile call of the transfer loop
SendFile ==
    /\ pc = "sendfile"
    /\ LET file_size == result[ci].files[fi].size
           remaining_to_send == RemainingToSend(file_size, sent_total)
           available == Len(src_content) - sent_total
       IN  \/ \E bytes_sent_this_call \in 1..Min(remaining_to_send, available) :
                 /\ sink' = sink \o SendBytes(src_content, sent_total, bytes_sent_this_call)
                 /\ sent_total' = sent_total + bytes_sent_this_call
                 /\ send_log' = Append(send_log, SendCall(remaining_to_send, "ok",
                                                          bytes_sent_this_call))
                 /\ pc' = IF sent_total' < file_size THEN "sendfile" ELSE "file_end"
                 /\ UNCHANGED <<out_buf, src_fd, open_fds, ret, faults>>
           \/ /\ available <= 0          \* Ok(0): end of file before file_size
              /\ ReturnErr(out_buf, sink)
              /\ send_log' = Append(send_log, SendCall(remaining_to_send, "ok", 0))
              /\ UNCHANGED <<sent_total, faults>>
           \/ /\ CanFail                 \* Errno::INTR: continue
              /\ faults' = faults + 1
              /\ send_log' = Append(send_log, SendCall(remaining_to_send, "intr", 0))
              /\ UNCHANGED <<pc, out_buf, sink, src_fd, open_fds, ret, sent_total>>
           \/ /\ CanFail                 \* any other error
              /\ ReturnErr(out_buf, sink)
              /\ faults' = faults + 1
              /\ send_log' = Append(send_log, SendCall(remaining_to_send, "err", 0))
              /\ UNCHANGED sent_total
    /\ UNCHANGED <<walkVars, relVars, caller, cli_args, task_args, ci, fi, src_content, read_log,
                   exit_code, stderr, result>>

\* lines 145-148: the newline and the closing lines; the descriptor is dropped
FileEnd ==
    /\ pc = "file_end"
    /\ \E o \in BufWriteOutcomes(out_buf, sink, FileFooterLines, CanFail) :
          IF o.ok
          THEN /\ out_buf' = o.buf
               /\ sink' = o.sink
               /\ src_fd' = NoPath
               /\ open_fds' = DropFd(open_fds, Len(read_log))
               /\ fi' = fi + 1
               /\ pc' = "file"
               /\ send_log' = <<>>
               /\ UNCHANGED <<ret, faults>>
          ELSE /\ ReturnErr(o.buf, o.sink)
               /\ faults' = faults + 1
               /\ UNCHANGED <<fi, send_log>>
    /\ UNCHANGED <<walkVars, relVars, caller, cli_args, task_args, ci, src_content, sent_total,
                   read_log, exit_code, stderr, result>>

\* lines 158-163: the task line, the final flush and the return
TaskAndFlush ==
    /\ pc = "task"
    /\ \E w \in BufWriteOutcomes(out_buf, sink, TaskLines(task_args), CanFail) :
          IF w.ok
          THEN \E o \in FlushOutcomes(w.buf, w.sink, CanFail) :
                  IF o.ok
                  THEN /\ out_buf' = o.buf
                       /\ sink' = o.sink
                       /\ ret' = "ok"
                       /\ pc' = "returned"
                       /\ UNCHANGED <<src_fd, open_fds, faults>>
                  ELSE /\ ReturnErr(o.buf, o.sink)
                       /\ faults' = faults + 1
          ELSE /\ ReturnErr(w.buf, w.sink)
               /\ faults' = faults + 1
    /\ UNCHANGED <<walkVars, relVars, caller, cli_args, task_args, ci, fi, src_content, sent_total, send_log,
                   read_log, exit_code, stderr, result>>

NextOut ==
    \/ MainArgs
    \/ MainLoad
    \/ MainCheck
    \/ WriteOutputEntry
    \/ CategoryHeader
    \/ FileHeader
    \/ FlushBeforeSend
    \/ OpenSource
    \/ SendFile
    \/ FileEnd
    \/ TaskAndFlush
    \/ MainAfterWrite

SpecOut == InitOut /\ [][NextOut]_vars

\* the process is scheduled as long as it has a step to take, and the consumer of
\* the stream takes the bytes offered to it
SpecOutFair == InitOut /\ [][NextOut]_vars /\ WF_vars(NextOut)

----------------------------------------------------------------------------
(* Properties of write_output *)

Succeeded == pc \in {"returned", "exited"} /\ ret = "ok"

ResultFiles == AllFiles(result)

\* position in the sink of the k-th line equal to tok
NthIndex(tok, k) ==
    CHOOSE i \in 1..Len(sink) :
        sink[i] = tok /\ Cardinality({ j \in 1..i : sink[j] = tok }) = k

\* what the sink holds after the k-th <content> line and before the newline that
\* precedes the k-th </content> line
ContentRegion(k) ==
    SubSeq(sink, NthIndex("<content>\n", k) + 1, NthIndex("</content>\n", k) - 2)

\* C6 as stated: when write_output succeeds the content region of every file holds
\* the file's contents as they were when it was opened, whatever their length.
C6_ContentIsFileContents ==
    Succeeded =>
        /\ Len(read_log) = Len(ResultFiles)
        /\ \A k \in 1..Len(ResultFiles) : ContentRegion(k) = read_log[k].content

\* C6 amended: when write_output succeeds the content region of every file holds
\* the first `size` bytes of the file's contents as they were when it was opened,
\* size being the size recorded during the walk; the file held at least that many.
C6_ContentIsRecordedPrefix ==
    Succeeded =>
        /\ Len(read_log) = Len(ResultFiles)
        /\ \A k \in 1..Len(ResultFiles) :
              /\ read_log[k].path = ResultFiles[k].absolute_path
              /\ Len(read_log[k].content) >= ResultFiles[k].size
              /\ ContentRegion(k) = SubSeq(read_log[k].content, 1, ResultFiles[k].size)

\* a file that has grown since the walk was streamed: its region is cut short
C6_Witness ==
    /\ Succeeded
    /\ \E k \in 1..Len(ResultFiles) :
          /\ ResultFiles[k].size > 0
          /\ Len(read_log[k].content) > ResultFiles[k].size
          /\ ContentRegion(k) # read_log[k].content
          /\ Len(ContentRegion(k)) = ResultFiles[k].size

RECURSIVE ExpectedFiles(_, _)
ExpectedFiles(files, opened) ==
    IF files = <<>> THEN <<>>
    ELSE << "<file>\n", "<path>\n", Display(files[1].relative_path) \o "\n", "</path>\n",
            "<content>\n" >>
         \o SubSeq(read_log[opened + 1].content, 1, files[1].size)
         \o << "\n", "</content>\n", "</file>\n" >>
         \o ExpectedFiles(Tail(files), opened + 1)

RECURSIVE ExpectedBuckets(_, _)
ExpectedBuckets(buckets, opened) ==
    IF buckets = <<>> THEN <<>>
    ELSE << "<category>\n", "<description>\n", buckets[1].description_text \o "\n",
            "</description>\n", "<files>\n" >>
         \o ExpectedFiles(buckets[1].files, opened)
         \o << "</files>\n", "</category>\n" >>
         \o ExpectedBuckets(Tail(buckets), opened + Len(buckets[1].files))

ExpectedTask == IF task_args.some THEN << "<task>" \o task_args.val \o "</task>\n" >> ELSE <<>>

\* C7: when write_output succeeds the sink holds exactly the serialization of the
\* ResultSet: the buckets in order, in each the files in order, each file as its
\* header lines, its bytes, one newline and its closing lines, then the task line
\* if there is one; nothing is left in the buffer.
C7_SinkIsSerialization ==
    Succeeded =>
        /\ Len(read_log) = Len(ResultFiles)
        /\ sink = ExpectedBuckets(result, 0) \o ExpectedTask
        /\ out_buf = <<>>

\* a bucket of two non-empty files and a task line were written
C7_Witness ==
    /\ Succeeded
    /\ task_args.some
    /\ \E i \in 1..Len(result) :
          /\ Len(result[i].files) = 2
          /\ result[i].files[1].size > 0
          /\ result[i].files[2].size > 0
    /\ Len(sink) > 20

RECURSIVE JoinLeft(_, _)
JoinLeft(args, n) ==
    IF n = 1 THEN args[1] ELSE JoinLeft(args, n - 1) \o " " \o args[n]

IsTaskLine(line) == Len(line) >= 6 /\ SubSeq(line, 1, 6) = "<task>"

\* C8: main supplies a task string exactly when arguments were given, joined by
\* single spaces; when one is supplied (the empty string included) a successful
\* output ends with <task>{it}</task>, also for an empty ResultSet; when none is
\* supplied no <task> line is ever written.
C8_TaskLine ==
    /\ (caller = "main" /\ pc # "main_args") =>
          task_args = IF cli_args = <<>> THEN None
                      ELSE Some(JoinLeft(cli_args, Len(cli_args)))
    /\ (Succeeded /\ task_args.some) =>
          /\ sink # <<>>
          /\ sink[Len(sink)] = "<task>" \o task_args.val \o "</task>\n"
    /\ ~task_args.some =>
          /\ \A i \in 1..Len(sink) : ~IsTaskLine(sink[i])
          /\ \A i \in 1..Len(out_buf) : ~IsTaskLine(out_buf[i])

\* main was given the single argument "" and no file was found: the output is the
\* empty task line alone
C8_Witness ==
    /\ Succeeded
    /\ caller = "main"
    /\ cli_args = << "" >>
    /\ result = <<>>
    /\ sink = << "<task></task>\n" >>

\* main exited before it had a ResultSet
SetupFailed == \E k \in 1..Len(stderr) : stderr[k] \in SetupErrors \cup {PanicMessage}

\* C9: with an empty ResultSet and no task argument write_output returns success,
\* the sink has received nothing, nothing is buffered and no file was opened; main,
\* once it has the empty ResultSet, does not even call it and ends with status 0.
C9_NothingToDo ==
    (result = <<>> /\ ~task_args.some /\ pc \in {"returned", "exited"} /\ ~SetupFailed) =>
        /\ sink = <<>>
        /\ out_buf = <<>>
        /\ read_log = <<>>
        /\ src_fd = NoPath
        /\ pc = "returned" => ret = "ok"
        /\ pc = "exited" => exit_code = 0

\* write_output was called with nothing to write and has returned
C9_Witness ==
    /\ caller = "direct"
    /\ pc = "returned"
    /\ result = <<>>
    /\ ~task_args.some
    /\ ret = "ok"
    /\ sink = <<>>

RECURSIVE SentBefore(_, _)
\* the bytes moved by the first n calls of the log
SentBefore(log, n) == IF n = 0 THEN 0 ELSE SentBefore(log, n - 1) + log[n].sent

Transferring == pc \in {"sendfile", "file_end"}

\* C13: while a file of recorded size n > 0 is transferred, every sendfile call
\* asks for exactly the bytes still missing (n minus what the earlier calls
\* moved), an interrupted call moves nothing and is followed by another call, the
\* count is the sum of what the calls moved, the loop goes on while the count is
\* short of n, and when it ends exactly n bytes of the file stand in the sink
\* after the <content> line.
C13_TransferMovesExactlyN ==
    Transferring =>
        LET n == result[ci].files[fi].size IN
        /\ \A i \in 1..Len(send_log) :
              /\ send_log[i].requested = n - SentBefore(send_log, i - 1)
              /\ send_log[i].outcome = "intr" => send_log[i].sent = 0
              /\ send_log[i].outcome = "ok" => send_log[i].sent \in 1..send_log[i].requested
        /\ sent_total = SentBefore(send_log, Len(send_log))
        /\ pc = "sendfile" => sent_total < n
        /\ (send_log # <<>> /\ send_log[Len(send_log)].outcome = "intr") =>
              pc = "sendfile" /\ ret = "none"
        /\ (pc = "file_end" /\ n > 0) =>
              /\ sent_total = n
              /\ Len(sink) > n
              /\ sink[Len(sink) - n] = "<content>\n"
              /\ SubSeq(sink, Len(sink) - n + 1, Len(sink)) = SubSeq(src_content, 1, n)

\* a transfer of two bytes ended after a short completion, an interrupted call
\* and the call for the remaining byte
C13_Witness ==
    /\ pc = "file_end"
    /\ result[ci].files[fi].size = 2
    /\ sent_total = 2
    /\ Len(send_log) = 3
    /\ send_log[1].outcome = "ok" /\ send_log[1].sent = 1
    /\ send_log[2].outcome = "intr"
    /\ send_log[3].outcome = "ok" /\ send_log[3].requested = 1

\* a step in which a sendfile call was interrupted
Interrupted == Len(send_log') = Len(send_log) + 1 /\ send_log'[Len(send_log')].outcome = "intr"

\* a step in which a sendfile call made no progress
ZeroProgress ==
    /\ Len(send_log') = Len(send_log) + 1
    /\ send_log'[Len(send_log')].outcome = "ok"
    /\ send_log'[Len(send_log')].sent = 0

\* C14: a failed write to the sink, a failed open of a source file and a failed
\* or zero-progress transfer, an interrupted transfer apart, make write_output
\* return an error, which main turns into exit status 1; from the moment of the
\* error on the sink receives no further byte and no further file is opened.
C14_NoByteAfterError ==
    /\ [][((faults' > faults /\ ~Interrupted) \/ ZeroProgress) =>
            (ret' = "err" /\ pc' = "returned")]_vars
    /\ [][ret' = "err" => (sink' = sink /\ read_log' = read_log)]_vars
    /\ [][ret = "err" => (ret' = "err" /\ pc' = "exited")]_vars
    /\ []((pc = "exited" /\ ret = "err") => exit_code = 1)

DiagnosticPrefixes == { "[ERROR]", "[WARNING]", "[INFO]", "Warning:", "thread" }

IsDiagnostic(line) == \E prefix \in DiagnosticPrefixes : HasPrefix(line, prefix)

\* C15: in a run of main no line that is buffered for the output stream or has
\* reached it is a diagnostic, every line of the diagnostic channel is one, and a
\* process that has ended with status 0 has left on the stream the whole
\* serialization of the ResultSet (nothing when there was nothing to write); any
\* other run ends with a non-zero status.
C15_StreamCarriesNoDiagnostics ==
    caller = "main" =>
        /\ \A i \in 1..Len(sink) : ~IsDiagnostic(sink[i]) /\ \A k \in 1..Len(stderr) : sink[i] # stderr[k]
        /\ \A i \in 1..Len(out_buf) : ~IsDiagnostic(out_buf[i])
        /\ \A k \in 1..Len(stderr) : IsDiagnostic(stderr[k])
        /\ pc = "exited" =>
              \/ /\ exit_code = 0
                 /\ ~SetupFailed
                 /\ ret \in {"none", "ok"}
                 /\ out_buf = <<>>
                 /\ Len(read_log) = Len(ResultFiles)
                 /\ sink = ExpectedBuckets(result, 0) \o ExpectedTask
              \/ /\ exit_code > 0
                 /\ stderr # <<>>
                 /\ stderr[Len(stderr)] = PanicMessage
                      \/ HasPrefix(stderr[Len(stderr)], "[ERROR]")

\* the walk had logged a warning, the output failed part of the way: the stream
\* holds markup only and the process ended with status 1
C15_Witness ==
    /\ caller = "main"
    /\ pc = "exited"
    /\ exit_code = 1
    /\ Len(stderr) = 2
    /\ stderr[1] = "Warning: Error walking directory entry"
    /\ stderr[2] = "[ERROR] Error writing output to stdout"
    /\ sink # <<>>
    /\ read_log # <<>>

\* C20: whenever a source file is opened or a sendfile call is made the markup
\* buffer is empty and it stays empty until the transfer loop has ended; the
\* sink then ends with the file's header lines up to <content>, followed by the
\* bytes transferred so far and nothing else, so that the closing lines, still
\* to be written, come after the last content byte.
C20_BufferEmptyAtTransfer ==
    /\ [](pc \in {"open", "sendfile", "file_end"} => out_buf = <<>>)
    /\ [](Transferring =>
            LET header == FileHeaderLines(result[ci].files[fi])
                start == Len(sink) - sent_total
            IN  /\ start >= Len(header)
                /\ SubSeq(sink, start - Len(header) + 1, start) = header
                /\ SubSeq(sink, start + 1, Len(sink)) = SubSeq(src_content, 1, sent_total))
    /\ [][Len(send_log') > Len(send_log) => (out_buf = <<>> /\ out_buf' = <<>>)]_vars

\* the second file of a bucket is part of the way through its transfer: the
\* closing lines of the first file and its own header have reached the sink
C20_Witness ==
    /\ pc = "sendfile"
    /\ fi = 2
    /\ sent_total = 1
    /\ out_buf = <<>>
    /\ Len(sink) > 10
    /\ sink[Len(sink) - 1] = "<content>\n"

----------------------------------------------------------------------------
(* Lifetime of the source descriptors *)

\* C21: while write_output runs at most one source descriptor is open, the one open
\* is that of the file being transferred, and once write_output has returned, with
\* success or through any early error return (failed open, zero-progress transfer,
\* transfer error, failed buffered write), no source descriptor is open.
C21_AtMostOneSourceOpen ==
    /\ Cardinality(open_fds) <= 1
    /\ open_fds # {} => /\ open_fds = {Len(read_log)}
                        /\ pc \in {"sendfile", "file_end"}
    /\ pc \in {"returned", "exited"} => open_fds = {}

\* the transfer of the second file ended in an early error return
C21_Witness ==
    /\ pc = "returned"
    /\ ret = "err"
    /\ Len(read_log) = 2
    /\ send_log # <<>>
    /\ send_log[Len(send_log)].sent = 0
    /\ open_fds = {}

----------------------------------------------------------------------------
(* The Path Resolver on its own: create_relative_path applied to a pair of
   canonical paths of one platform, and the caller's match on what it returned *)

Names == {"a", "b"}

\* the roots canonical paths start with: "/" alone, or a drive prefix and "\"
PlatformRoots(platform) ==
    IF platform = "unix" THEN { <<"/">> } ELSE { <<p, "/">> : p \in Prefixes }

CanonicalPaths(platform) ==
    { r \o n : r \in PlatformRoots(platform), n \in SeqsUpTo(Names, MaxDepth) }

InitRel ==
    /\ scan = <<>>
    /\ docs = {}
    /\ src = {}
    /\ disk = DiskOf(0, 0, 0)
    /\ WalkIdle
    /\ faults = 0
    /\ stderr = <<>>
    /\ result = <<>>
    /\ ret = "none"
    /\ caller = "direct"
    /\ cli_args = <<>>
    /\ task_args = None
    /\ OutIdle
    /\ pc = "resolve"
    /\ \E platform \in {"unix", "windows"} :
          /\ resolver_base \in CanonicalPaths(platform)
          /\ resolver_target \in CanonicalPaths(platform)
    /\ resolver_result = NoResult

\* lines 27-72, called at line 208
Resolve ==
    /\ pc = "resolve"
    /\ resolver_result' = create_relative_path(resolver_base, resolver_target)
    /\ pc' = "resolved"
    /\ UNCHANGED <<walkVars, outVars, resolver_base, resolver_target, faults, stderr,
                   result, ret>>

\* lines 208-217: the caller keeps the path, or warns and skips the file
ResolverCaller ==
    /\ pc = "resolved"
    /\ IF resolver_result.ok
       THEN /\ pc' = "categorize"
            /\ UNCHANGED stderr
       ELSE /\ pc' = "skipped"
            /\ Warn("Warning: Failed to create relative path for "
                    \o DebugText(resolver_target))
    /\ UNCHANGED <<walkVars, outVars, relVars, faults, result, ret>>

NextRel ==
    \/ Resolve
    \/ ResolverCaller

SpecRel == InitRel /\ [][NextRel]_vars

Resolved == pc \in {"resolved", "categorize", "skipped"}

\* the root of a canonical path: its prefix, if it has one, and its root directory
RootOf(p) == IF p[1] \in Prefixes THEN SubSeq(p, 1, 2) ELSE SubSeq(p, 1, 1)

\* the number of leading components two paths have in common
LongestCommon(b, t) ==
    CHOOSE n \in 0..Min(Len(b), Len(t)) :
        /\ SubSeq(b, 1, n) = SubSeq(t, 1, n)
        /\ n < Min(Len(b), Len(t)) => b[n + 1] # t[n + 1]

\* C22: for a canonical base and target with the same root the resolver returns
\* "." when the target is the base, the target's remaining components when the
\* target lies under the base, and otherwise one ".." for each component of the
\* base after the common prefix followed by the target's components after the
\* common prefix; the path is never empty, and appended to the base and
\* normalized it gives the target.
C22_RelativePathLeadsToTarget ==
    Resolved /\ RootOf(resolver_base) = RootOf(resolver_target) =>
        LET b == resolver_base
            t == resolver_target
            k == LongestCommon(b, t)
            rel == resolver_result.path
        IN  /\ resolver_result.ok
            /\ rel # <<>>
            /\ t = b => rel = <<".">>
            /\ t # b /\ IsPrefixOf(b, t) => rel = SubSeq(t, Len(b) + 1, Len(t))
            /\ ~IsPrefixOf(b, t) =>
                  rel = [i \in 1..(Len(b) - k) |-> ".."] \o SubSeq(t, k + 1, Len(t))
            /\ Normalize(<<>>, b \o rel) = t

\* a target in another branch, two levels up from the base
C22_Witness ==
    /\ Resolved
    /\ resolver_base = <<"/", "a", "b">>
    /\ resolver_target = <<"/", "b", "a">>
    /\ resolver_result.path = <<"..", "..", "b", "a">>

----------------------------------------------------------------------------
(* Termination of the output *)

\* C24: an output that has started ends, write_output returning success only after
\* every file was opened and transferred up to its recorded size, or an error; a
\* sendfile call that moves nothing before the recorded size is reached makes
\* write_output return an error in that very step instead of calling again.
C24_OutputTerminates ==
    /\ (pc = "write_output") ~> (pc \in {"returned", "exited"})
    /\ [](pc = "returned" /\ ret = "ok" =>
            /\ Len(read_log) = Len(ResultFiles)
            /\ ci = Len(result) + 1)
    /\ [][ZeroProgress => pc' = "returned" /\ ret' = "err"]_vars

\* a file shorter than recorded: after some bytes a call moved nothing
C24_Witness ==
    /\ pc = "returned"
    /\ ret = "err"
    /\ sent_total > 0
    /\ Len(send_log) >= 2
    /\ send_log[Len(send_log)] = SendCall(result[ci].files[fi].size - sent_total, "ok", 0)

----------------------------------------------------------------------------
(* What the schedule of the walk cannot change *)

\* no discovery of the run failed: the file system answered every call
NoDiscoveryFailed ==
    Count(stderr, FileWarningPrefix) = 0 /\ Count(stderr, WalkErrorPrefix) = 0

\* every discovery of a path reported the same size
SizesAgree ==
    \A i, j \in 1..Len(pushed) :
        pushed[i].file.absolute_path = pushed[j].file.absolute_path
            => pushed[i].file.size = pushed[j].file.size

ReportedSize(f) ==
    pushed[CHOOSE i \in 1..Len(pushed) : pushed[i].file.absolute_path = f].file.size

RECURSIVE ReportedSum(_)
ReportedSum(fs) ==
    IF fs = {} THEN 0
    ELSE LET f == CHOOSE x \in fs : TRUE IN ReportedSize(f) + ReportedSum(fs \ {f})

\* C25: whatever the interleaving of the walker threads and the order of the
\* drain, the result is the one the file system and the configuration fix: a
\* category has a bucket exactly when a file of it lies below a walked directory,
\* the bucket's members are exactly those files, each once, and, when every
\* discovery of a path reported the same size, each total_size is the u64 sum of
\* the members' sizes and the buckets stand by total_size descending, ties in the
\* order Docs, Src, Other. Only the order of the files in a bucket is left open.
C25_ResultIndependentOfSchedule ==
    (Returned /\ NoDiscoveryFailed) =>
        /\ \A c \in FileCategoryType :
              LET expected == FilesOfCategory(RootSet, c) IN
              /\ Cardinality(BucketsOf(c)) = IF expected = {} THEN 0 ELSE 1
              /\ \A i \in BucketsOf(c) :
                    /\ Len(result[i].files) = Cardinality(expected)
                    /\ { result[i].files[k].absolute_path : k \in 1..Len(result[i].files) }
                          = expected
                    /\ \A k \in 1..Len(result[i].files) :
                          result[i].files[k].relative_path
                            = create_relative_path(canonical_working_dir,
                                                   result[i].files[k].absolute_path).path
                    /\ SizesAgree =>
                          result[i].total_size = ReportedSum(expected) % U64Blocks
        /\ SizesAgree =>
              \A i, j \in 1..Len(result) :
                  i < j =>
                     \/ result[i].total_size > result[j].total_size
                     \/ /\ result[i].total_size = result[j].total_size
                        /\ \E m, n \in 1..3 :
                              /\ m < n
                              /\ <<"Docs", "Src", "Other">>[m] = CategoryOf(result[i])
                              /\ <<"Docs", "Src", "Other">>[n] = CategoryOf(result[j])

\* three roots, two of them the same directory: its files were pushed twice by
\* two threads in either order, and two buckets tie
C25_Witness ==
    /\ Returned
    /\ NoDiscoveryFailed
    /\ SizesAgree
    /\ Len(walk_roots) >= 2 /\ Cardinality(RootSet) < Len(walk_roots)
    /\ Len(pushed) > Len(AllFiles(result))
    /\ Len(result) >= 2
    /\ result[1].total_size = result[2].total_size

\* the two discoveries of a file reported different sizes and its bucket has the
\* same members all the same
C25_WitnessSizesDiffer ==
    /\ Returned
    /\ NoDiscoveryFailed
    /\ ~SizesAgree
    /\ Len(result) >= 1

----------------------------------------------------------------------------
(* The recorded size bounds the transfer *)

\* the transfer loop of the current file has been entered, or was left by an
\* error return
InTransferLoop ==
    \/ pc \in {"sendfile", "file_end"}
    \/ pc \in {"returned", "exited"} /\ send_log # <<>>

\* C26: in every state of the transfer loop the bytes sent do not exceed the
\* recorded size, every sendfile call asked for exactly the recorded size minus
\* the bytes sent before it, another call is made only while the count is short
\* of the recorded size, and a file of recorded size 0 has no call at all; so a
\* content region never holds more bytes than the recorded size, however long
\* the file is when it is opened.
C26_NeverMoreThanRecorded ==
    /\ InTransferLoop =>
          LET file_size == result[ci].files[fi].size IN
          /\ sent_total <= file_size
          /\ sent_total = SentBefore(send_log, Len(send_log))
          /\ \A n \in 1..Len(send_log) :
                /\ send_log[n].requested = file_size - SentBefore(send_log, n - 1)
                /\ send_log[n].requested > 0
                /\ send_log[n].sent <= send_log[n].requested
          /\ file_size = 0 => send_log = <<>> /\ pc # "sendfile"
          /\ pc = "sendfile" => sent_total < file_size
    /\ Succeeded =>
          \A k \in 1..Len(ResultFiles) :
              Len(ContentRegion(k)) <= ResultFiles[k].size

\* a file recorded with size 0 and a file recorded with size 1 both held more
\* when they were opened
C26_Witness ==
    /\ Succeeded
    /\ \E k, m \in 1..Len(ResultFiles) :
          /\ ResultFiles[k].size = 0
          /\ Len(read_log[k].content) > 0
          /\ ContentRegion(k) = <<>>
          /\ ResultFiles[m].size = 1
          /\ Len(read_log[m].content) = 2
          /\ Len(ContentRegion(m)) = 1

====
